---- MODULE Spec2Model ----
(***************************************************************************)
(* A model of the football-league-manager domain classes: Player, Team and *)
(* League (Player.js, Team.js and League.js of js/classes).  Team objects  *)
(* are held in a heap, teamObjs, indexed by an object id; league.teams is  *)
(* a sequence of ids, so that two references to one object are told apart  *)
(* from two objects with equal fields.                                     *)
(*                                                                         *)
(* The variable last records the most recent call: the operation, its      *)
(* arguments and the value it returned.  nYellow and nRed count the        *)
(* addCard('yellow') and addCard('red') calls made on the player.  The     *)
(* match record's date field (new Date()) is a wall-clock reading and is   *)
(* left out of the log entry.                                              *)
(*                                                                         *)
(* SpecPlayer is one Player under all its methods, SpecLeague one League   *)
(* under all its methods, SpecStandings a League whose teams have played   *)
(* against teams that left the league again, SpecTeam one Team under all   *)
(* its methods, SpecClub a League with the rosters of its Teams and the    *)
(* Players of the rosters.  A roster holds its Players by value; a call on *)
(* a Player of a roster is made on the Player where the roster holds it.   *)
(*                                                                         *)
(* script.js holds a second, smaller Player, Team and League and the page  *)
(* that works on them: scriptObjs is the heap of its Team objects and      *)
(* scriptTeams the teams of its league.  SpecScript is that page under the *)
(* clicks of its buttons; SpecVariants makes every Team and League call on *)
(* the classes of js/classes and on the classes of script.js together.     *)
(* dom is the page that UIManager builds over the League of js/classes:    *)
(* the options of the team select, the team cards with the rows of their   *)
(* players, and the edit dialog while it is open.  SpecUi is the League    *)
(* under the handlers of UIManager.  Texts typed into a form are drawn     *)
(* from small sets; parseInt and trim are tables over these sets.          *)
(***************************************************************************)
EXTENDS Integers, Sequences, FiniteSets, TLC

VARIABLES teamObjs, teams, matches, player, nYellow, nRed, last,
          scriptObjs, scriptTeams, dom

vars == <<teamObjs, teams, matches, player, nYellow, nRed, last,
          scriptObjs, scriptTeams, dom>>

leagueVars == <<teamObjs, teams, matches>>

playerVars == <<player, nYellow, nRed>>

\* the objects of script.js and the page that UIManager builds
appVars == <<scriptObjs, scriptTeams, dom>>

----------------------------------------------------------------------------
(* Bounds of the model *)

\* skill arguments reach MaxOver below 1 and MaxOver above 10
MaxOver == 2

\* addCard('yellow') and addCard('red') calls made on the player
MaxCards == 3

\* Team objects constructed plus matches logged, and entries of league.teams
\* plus matches logged: 3 teams and 1 match, or 2 teams and 2 matches
MaxSize == 4

\* goals of one side in one match
MaxGoals == 1

\* teams of the league whose standings are taken
MaxStandTeams == 3

\* matches those teams have played
MaxPlayed == 2

\* players in the roster of the Team of SpecTeam
MaxRoster == 2

\* points, goalsFor and goalsAgainst of that Team, summed, before an
\* updateStats call
MaxTally == 3

\* Team objects, matches logged and Players of rosters in SpecClub
MaxClub == 3

\* calls whose effect one Player of a roster carries
MaxRosterCalls == 1

\* Team objects of script.js plus players of their rosters
MaxScript == 2

\* players of each of the two Teams, and teams constructed for each of the
\* two Leagues
MaxVariant == 3

\* Team objects of the page of UIManager plus Players of their rosters
MaxUi == 3

----------------------------------------------------------------------------
(* Values *)

\* the null reference: no object of a heap has id 0
null == 0

undefined == "undefined"

\* the page before UIManager has displayed anything: a select without
\* options, a container without cards, no modal
emptyPage == [teamSelect |-> <<>>, cards |-> <<>>, modal |-> <<>>]

\* no script.js object, no page
InitApp ==
    /\ scriptObjs = <<>>
    /\ scriptTeams = <<>>
    /\ dom = emptyPage

\* integer arguments for a skill: below the range, its low end, its high end,
\* above the range
SkillInputs == ((1 - MaxOver)..2) \cup (10..(10 + MaxOver))

CardTypes == {"yellow", "red", "green"}

PlayerNames == {"p1"}

Positions == {"Forward"}

TeamNames == {"A", "B"}

Goals == 0..MaxGoals

----------------------------------------------------------------------------
(* Player *)

Min(a, b) == IF a <= b THEN a ELSE b

Max(a, b) == IF a >= b THEN a ELSE b

\* validateAttribute without its lower limit
validateAttributeNoFloor(value) == Min(10, value)

\* validateAttribute without its upper limit
validateAttributeNoCeiling(value) == Max(1, value)

validateAttribute(value) == Max(1, Min(10, value))

\* calculateOverallRating with the average cut off (Math.floor) instead of rounded
calculateOverallRatingFloor(p) == (p.pace + p.shooting + p.passing) \div 3

\* Math.round(x) is floor(x + 1/2); with x = s/3 that is floor((2s + 3)/6)
calculateOverallRating(p) == (2 * (p.pace + p.shooting + p.passing) + 3) \div 6

PlayerConstructor(name, position, pace, shooting, passing) ==
    LET skills == [pace     |-> validateAttribute(pace),
                   shooting |-> validateAttribute(shooting),
                   passing  |-> validateAttribute(passing)]
    IN  [name          |-> name,
         position      |-> position,
         age           |-> 25,
         nationality   |-> "Unknown",
         jerseyNumber  |-> 0,
         pace          |-> skills.pace,
         shooting      |-> skills.shooting,
         passing       |-> skills.passing,
         overallRating |-> calculateOverallRating(skills),
         isInjured     |-> FALSE,
         yellowCards   |-> 0,
         redCards      |-> 0]

PlayerUpdateStatsResult(p, newPace, newShooting, newPassing) ==
    LET q == [p EXCEPT !.pace     = validateAttribute(newPace),
                       !.shooting = validateAttribute(newShooting),
                       !.passing  = validateAttribute(newPassing)]
    IN  [q EXCEPT !.overallRating = calculateOverallRating(q)]

\* addCard whose second yellow card adds the red card and keeps the yellow tally
addCardNoReset(p, cardType) ==
    IF cardType = "yellow"
    THEN LET q == [p EXCEPT !.yellowCards = @ + 1]
         IN  IF q.yellowCards >= 2 THEN [q EXCEPT !.redCards = @ + 1] ELSE q
    ELSE IF cardType = "red"
         THEN [p EXCEPT !.redCards = @ + 1]
         ELSE p

\* addCard that converts on the third yellow card (> 2 for >= 2)
addCardLateCarry(p, cardType) ==
    IF cardType = "yellow"
    THEN LET q == [p EXCEPT !.yellowCards = @ + 1]
         IN  IF q.yellowCards > 2
             THEN [q EXCEPT !.redCards = @ + 1, !.yellowCards = 0]
             ELSE q
    ELSE IF cardType = "red"
         THEN [p EXCEPT !.redCards = @ + 1]
         ELSE p

\* addCard that counts every card that is not yellow as a red one
addCardElseRed(p, cardType) ==
    IF cardType = "yellow"
    THEN LET q == [p EXCEPT !.yellowCards = @ + 1]
         IN  IF q.yellowCards >= 2
             THEN [q EXCEPT !.redCards = @ + 1, !.yellowCards = 0]
             ELSE q
    ELSE [p EXCEPT !.redCards = @ + 1]

\* addCard whose red card clears the yellow tally
addCardRedResets(p, cardType) ==
    IF cardType = "yellow"
    THEN LET q == [p EXCEPT !.yellowCards = @ + 1]
         IN  IF q.yellowCards >= 2
             THEN [q EXCEPT !.redCards = @ + 1, !.yellowCards = 0]
             ELSE q
    ELSE IF cardType = "red"
         THEN [p EXCEPT !.redCards = @ + 1, !.yellowCards = 0]
         ELSE p

addCardResult(p, cardType) ==
    IF cardType = "yellow"
    THEN LET q == [p EXCEPT !.yellowCards = @ + 1]
         IN  IF q.yellowCards >= 2
             THEN [q EXCEPT !.redCards = @ + 1, !.yellowCards = 0]
             ELSE q
    ELSE IF cardType = "red"
         THEN [p EXCEPT !.redCards = @ + 1]
         ELSE p

getPlayerInfo(p) ==
    [name         |-> p.name,
     position     |-> p.position,
     age          |-> p.age,
     nationality  |-> p.nationality,
     jerseyNumber |-> p.jerseyNumber,
     stats        |-> [pace     |-> p.pace,
                       shooting |-> p.shooting,
                       passing  |-> p.passing,
                       overall  |-> p.overallRating],
     status       |-> [isInjured   |-> p.isInjured,
                       yellowCards |-> p.yellowCards,
                       redCards    |-> p.redCards]]

PlayerUpdateStats(newPace, newShooting, newPassing) ==
    /\ player' = PlayerUpdateStatsResult(player, newPace, newShooting, newPassing)
    /\ last' = [op   |-> "Player.updateStats",
                args |-> <<newPace, newShooting, newPassing>>,
                ret  |-> undefined]
    /\ UNCHANGED <<nYellow, nRed, leagueVars, appVars>>

\* setInjuryStatus that takes the rating of an injured Player down to 1
setInjuryStatusRating(isInjured) ==
    /\ player' = [player EXCEPT !.isInjured = isInjured,
                                !.overallRating = IF isInjured THEN 1 ELSE @]
    /\ last' = [op |-> "setInjuryStatus", args |-> <<isInjured>>, ret |-> undefined]
    /\ UNCHANGED <<nYellow, nRed, leagueVars, appVars>>

setInjuryStatus(isInjured) ==
    /\ player' = [player EXCEPT !.isInjured = isInjured]
    /\ last' = [op |-> "setInjuryStatus", args |-> <<isInjured>>, ret |-> undefined]
    /\ UNCHANGED <<nYellow, nRed, leagueVars, appVars>>

addCard(cardType) ==
    /\ cardType \in {"yellow", "red"} => nYellow + nRed < MaxCards
    /\ player' = addCardResult(player, cardType)
    /\ nYellow' = IF cardType = "yellow" THEN nYellow + 1 ELSE nYellow
    /\ nRed' = IF cardType = "red" THEN nRed + 1 ELSE nRed
    /\ last' = [op |-> "addCard", args |-> <<cardType>>, ret |-> undefined]
    /\ UNCHANGED <<leagueVars, appVars>>

PlayerGetInfo ==
    /\ last' = [op |-> "getPlayerInfo", args |-> <<>>, ret |-> getPlayerInfo(player)]
    /\ UNCHANGED <<playerVars, leagueVars, appVars>>

InitPlayer ==
    /\ InitApp
    /\ \E name \in PlayerNames, position \in Positions,
          pace \in SkillInputs, shooting \in SkillInputs, passing \in SkillInputs :
          /\ player = PlayerConstructor(name, position, pace, shooting, passing)
          /\ last = [op   |-> "Player.constructor",
                     args |-> <<name, position, pace, shooting, passing>>,
                     ret  |-> undefined]
    /\ nYellow = 0
    /\ nRed = 0
    /\ teamObjs = <<>>
    /\ teams = <<>>
    /\ matches = <<>>

NextPlayer ==
    \/ \E a \in SkillInputs, b \in SkillInputs, c \in SkillInputs :
          PlayerUpdateStats(a, b, c)
    \/ \E b \in BOOLEAN : setInjuryStatus(b)
    \/ \E k \in CardTypes : addCard(k)
    \/ PlayerGetInfo

SpecPlayer == InitPlayer /\ [][NextPlayer]_vars

----------------------------------------------------------------------------
(* Team *)

TeamConstructor(name) ==
    [name         |-> name,
     city         |-> "Unknown",
     stadium      |-> "Unknown",
     players      |-> <<>>,
     points       |-> 0,
     goalsFor     |-> 0,
     goalsAgainst |-> 0]

\* updateStats with goalsConceded added to goalsFor
TeamUpdateStatsForOnly(t, goalsScored, goalsConceded, pointsEarned) ==
    [t EXCEPT !.goalsFor     = @ + goalsScored + goalsConceded,
              !.points       = @ + pointsEarned]

\* updateStats that assigns (=) where it should add (+=)
TeamUpdateStatsAssign(t, goalsScored, goalsConceded, pointsEarned) ==
    [t EXCEPT !.goalsFor     = goalsScored,
              !.goalsAgainst = goalsConceded,
              !.points       = pointsEarned]

TeamUpdateStats(t, goalsScored, goalsConceded, pointsEarned) ==
    [t EXCEPT !.goalsFor     = @ + goalsScored,
              !.goalsAgainst = @ + goalsConceded,
              !.points       = @ + pointsEarned]

\* getTeamInfo with the goal difference taken the wrong way round
getTeamInfoDiffSwapped(t) ==
    [name    |-> t.name,
     city    |-> t.city,
     stadium |-> t.stadium,
     players |-> [i \in DOMAIN t.players |-> getPlayerInfo(t.players[i])],
     stats   |-> [points         |-> t.points,
                  goalsFor       |-> t.goalsFor,
                  goalsAgainst   |-> t.goalsAgainst,
                  goalDifference |-> t.goalsAgainst - t.goalsFor]]

getTeamInfo(t) ==
    [name    |-> t.name,
     city    |-> t.city,
     stadium |-> t.stadium,
     players |-> [i \in DOMAIN t.players |-> getPlayerInfo(t.players[i])],
     stats   |-> [points         |-> t.points,
                  goalsFor       |-> t.goalsFor,
                  goalsAgainst   |-> t.goalsAgainst,
                  goalDifference |-> t.goalsFor - t.goalsAgainst]]

----------------------------------------------------------------------------
(* League *)

\* the Team object that the entry at index i of league.teams refers to
TeamAt(i) == teamObjs[teams[i]]

\* findLastIndex in the place of findIndex
findLastIndex(teamName) ==
    IF \E i \in DOMAIN teams : TeamAt(i).name = teamName
    THEN CHOOSE i \in DOMAIN teams :
            /\ TeamAt(i).name = teamName
            /\ \A j \in (i + 1)..Len(teams) : TeamAt(j).name # teamName
    ELSE -1

\* this.teams.findIndex(t => t.name === teamName)
findIndex(teamName) ==
    IF \E i \in DOMAIN teams : TeamAt(i).name = teamName
    THEN CHOOSE i \in DOMAIN teams :
            /\ TeamAt(i).name = teamName
            /\ \A j \in 1..(i - 1) : TeamAt(j).name # teamName
    ELSE -1

\* this.teams.find(t => t.name === teamName) || null, as a reference
getTeam(teamName) ==
    IF findIndex(teamName) = -1 THEN null ELSE teams[findIndex(teamName)]

\* the sequence s without its element at index i (splice(i, 1))
splice(s, i) == [k \in 1..(Len(s) - 1) |-> IF k < i THEN s[k] ELSE s[k + 1]]

\* team is a reference: to a Team of the heap (one that is or was in the
\* league), or null, which is no instance of Team
addTeam(team) ==
    /\ IF team \notin DOMAIN teamObjs
       THEN /\ last' = [op |-> "addTeam", args |-> <<team>>, ret |-> FALSE]
            /\ UNCHANGED teams
       ELSE /\ Len(teams) + Len(matches) < MaxSize
            /\ teams' = Append(teams, team)
            /\ last' = [op |-> "addTeam", args |-> <<team>>, ret |-> TRUE]
    /\ UNCHANGED <<teamObjs, matches, playerVars, appVars>>

\* league.addTeam(new Team(name)): the new object gets the next free id of
\* the heap
addNewTeam(name) ==
    LET team == Len(teamObjs) + 1
    IN  /\ Len(teamObjs) + Len(matches) < MaxSize
        /\ Len(teams) + Len(matches) < MaxSize
        /\ teamObjs' = Append(teamObjs, TeamConstructor(name))
        /\ teams' = Append(teams, team)
        /\ last' = [op |-> "addTeam", args |-> <<team>>, ret |-> TRUE]
        /\ UNCHANGED <<matches, playerVars, appVars>>

\* removeTeam that also drops the removed team's matches from the log
removeTeamWithMatches(teamName) ==
    /\ IF findIndex(teamName) = -1
       THEN /\ last' = [op |-> "removeTeam", args |-> <<teamName>>, ret |-> FALSE]
            /\ UNCHANGED <<teams, matches>>
       ELSE /\ teams' = splice(teams, findIndex(teamName))
            /\ matches' = SelectSeq(matches,
                   LAMBDA m : m.homeTeam # teamName /\ m.awayTeam # teamName)
            /\ last' = [op |-> "removeTeam", args |-> <<teamName>>, ret |-> TRUE]
    /\ UNCHANGED <<teamObjs, playerVars, appVars>>

\* removeTeam that sets the statistics of the team it takes out back to 0
removeTeamResetStats(teamName) ==
    /\ IF findIndex(teamName) = -1
       THEN /\ last' = [op |-> "removeTeam", args |-> <<teamName>>, ret |-> FALSE]
            /\ UNCHANGED <<teams, teamObjs>>
       ELSE /\ teams' = splice(teams, findIndex(teamName))
            /\ teamObjs' = [teamObjs EXCEPT ![getTeam(teamName)] =
                   [@ EXCEPT !.points = 0, !.goalsFor = 0, !.goalsAgainst = 0]]
            /\ last' = [op |-> "removeTeam", args |-> <<teamName>>, ret |-> TRUE]
    /\ UNCHANGED <<matches, playerVars, appVars>>

removeTeam(teamName) ==
    /\ IF findIndex(teamName) = -1
       THEN /\ last' = [op |-> "removeTeam", args |-> <<teamName>>, ret |-> FALSE]
            /\ UNCHANGED teams
       ELSE /\ teams' = splice(teams, findIndex(teamName))
            /\ last' = [op |-> "removeTeam", args |-> <<teamName>>, ret |-> TRUE]
    /\ UNCHANGED <<teamObjs, matches, playerVars, appVars>>

LeagueGetTeam(teamName) ==
    /\ last' = [op |-> "getTeam", args |-> <<teamName>>, ret |-> getTeam(teamName)]
    /\ UNCHANGED <<leagueVars, playerVars, appVars>>

\* points with a draw that pays nothing
matchPointsNoDraw(homeGoals, awayGoals) ==
    IF homeGoals > awayGoals THEN [home |-> 3, away |-> 0]
    ELSE IF homeGoals < awayGoals THEN [home |-> 0, away |-> 3]
    ELSE [home |-> 0, away |-> 0]

\* points with 2 for a win
matchPointsTwoForWin(homeGoals, awayGoals) ==
    IF homeGoals > awayGoals THEN [home |-> 2, away |-> 0]
    ELSE IF homeGoals < awayGoals THEN [home |-> 0, away |-> 2]
    ELSE [home |-> 1, away |-> 1]

\* homePoints and awayPoints: 3 for a win, 1 for a draw, 0 for a loss
matchPoints(homeGoals, awayGoals) ==
    IF homeGoals > awayGoals THEN [home |-> 3, away |-> 0]
    ELSE IF homeGoals < awayGoals THEN [home |-> 0, away |-> 3]
    ELSE [home |-> 1, away |-> 1]

\* the heap after updateStats calls that give the away team the goals in the
\* order of the home team
applyMatchHomeOrder(objs, homeTeam, awayTeam, homeGoals, awayGoals) ==
    LET pts    == matchPoints(homeGoals, awayGoals)
        afterH == [objs EXCEPT ![homeTeam] =
                      TeamUpdateStats(@, homeGoals, awayGoals, pts.home)]
    IN  [afterH EXCEPT ![awayTeam] =
            TeamUpdateStats(@, homeGoals, awayGoals, pts.away)]

\* the heap after homeTeam.updateStats(...) and then awayTeam.updateStats(...)
applyMatch(objs, homeTeam, awayTeam, homeGoals, awayGoals) ==
    LET pts    == matchPoints(homeGoals, awayGoals)
        afterH == [objs EXCEPT ![homeTeam] =
                      TeamUpdateStats(@, homeGoals, awayGoals, pts.home)]
    IN  [afterH EXCEPT ![awayTeam] =
            TeamUpdateStats(@, awayGoals, homeGoals, pts.away)]

\* the bound of the model leaves room for one more match
logHasRoom ==
    /\ Len(teamObjs) + Len(matches) < MaxSize
    /\ Len(teams) + Len(matches) < MaxSize

matchRecord(homeTeamName, awayTeamName, homeGoals, awayGoals) ==
    [homeTeam  |-> homeTeamName,
     awayTeam  |-> awayTeamName,
     homeGoals |-> homeGoals,
     awayGoals |-> awayGoals]

\* recordMatch that updates the home team before it looks for the away team
recordMatchHomeFirst(homeTeamName, awayTeamName, homeGoals, awayGoals) ==
    LET homeTeam == getTeam(homeTeamName)
        awayTeam == getTeam(awayTeamName)
        pts      == matchPoints(homeGoals, awayGoals)
        args     == <<homeTeamName, awayTeamName, homeGoals, awayGoals>>
    IN  /\ IF homeTeam = null
           THEN /\ last' = [op |-> "recordMatch", args |-> args, ret |-> FALSE]
                /\ UNCHANGED <<teamObjs, matches>>
           ELSE IF awayTeam = null
           THEN /\ logHasRoom
                /\ teamObjs' = [teamObjs EXCEPT ![homeTeam] =
                       TeamUpdateStats(@, homeGoals, awayGoals, pts.home)]
                /\ last' = [op |-> "recordMatch", args |-> args, ret |-> FALSE]
                /\ UNCHANGED matches
           ELSE /\ logHasRoom
                /\ teamObjs' = applyMatch(teamObjs, homeTeam, awayTeam,
                                          homeGoals, awayGoals)
                /\ matches' = Append(matches, matchRecord(homeTeamName,
                                  awayTeamName, homeGoals, awayGoals))
                /\ last' = [op |-> "recordMatch", args |-> args, ret |-> TRUE]
        /\ UNCHANGED <<teams, playerVars, appVars>>

recordMatch(homeTeamName, awayTeamName, homeGoals, awayGoals) ==
    LET homeTeam == getTeam(homeTeamName)
        awayTeam == getTeam(awayTeamName)
        args     == <<homeTeamName, awayTeamName, homeGoals, awayGoals>>
    IN  /\ IF homeTeam = null \/ awayTeam = null
           THEN /\ last' = [op |-> "recordMatch", args |-> args, ret |-> FALSE]
                /\ UNCHANGED <<teamObjs, matches>>
           ELSE /\ logHasRoom
                /\ teamObjs' = applyMatch(teamObjs, homeTeam, awayTeam,
                                          homeGoals, awayGoals)
                /\ matches' = Append(matches, matchRecord(homeTeamName,
                                  awayTeamName, homeGoals, awayGoals))
                /\ last' = [op |-> "recordMatch", args |-> args, ret |-> TRUE]
        /\ UNCHANGED <<teams, playerVars, appVars>>

\* the comparator without its goal difference branch
compareStandingsPointsOnly(a, b) == b.stats.points - a.stats.points

\* the comparator of getStandings: negative when a goes before b
compareStandings(a, b) ==
    IF b.stats.points # a.stats.points
    THEN b.stats.points - a.stats.points
    ELSE b.stats.goalDifference - a.stats.goalDifference

\* x put into the sorted sequence s, behind every element that does not go
\* after it: one step of a stable sort
insertSorted(s, x) ==
    LET after == {k \in DOMAIN s : compareStandings(s[k], x) > 0}
        pos   == IF after = {} THEN Len(s) + 1
                 ELSE CHOOSE k \in after : \A j \in after : k <= j
    IN  SubSeq(s, 1, pos - 1) \o <<x>> \o SubSeq(s, pos, Len(s))

RECURSIVE sortStandings(_)
\* Array.prototype.sort with compareStandings: a stable sort (ECMAScript 2019)
sortStandings(s) ==
    IF s = <<>> THEN <<>>
    ELSE insertSorted(sortStandings(SubSeq(s, 1, Len(s) - 1)), s[Len(s)])

\* this.teams.map(team => team.getTeamInfo())
teamInfos == [i \in DOMAIN teams |-> getTeamInfo(TeamAt(i))]

getStandings == sortStandings(teamInfos)

getLeagueInfo ==
    [name      |-> "League",
     country   |-> "Unknown",
     teams     |-> teamInfos,
     matches   |-> matches,
     standings |-> getStandings]

\* getStandings that sorts this.teams itself (no map before sort)
LeagueGetStandingsInPlace ==
    /\ teams' = [k \in DOMAIN teams |->
                    CHOOSE id \in {teams[i] : i \in DOMAIN teams} :
                       getTeamInfo(teamObjs[id]) = getStandings[k]]
    /\ last' = [op |-> "getStandings", args |-> <<>>, ret |-> getStandings]
    /\ UNCHANGED <<teamObjs, matches, playerVars, appVars>>

LeagueGetStandings ==
    /\ last' = [op |-> "getStandings", args |-> <<>>, ret |-> getStandings]
    /\ UNCHANGED <<leagueVars, playerVars, appVars>>

LeagueGetInfo ==
    /\ last' = [op |-> "getLeagueInfo", args |-> <<>>, ret |-> getLeagueInfo]
    /\ UNCHANGED <<leagueVars, playerVars, appVars>>

\* new League("League"); the Player variables hold a default Player, which
\* no League operation reads
InitLeague ==
    /\ InitApp
    /\ teamObjs = <<>>
    /\ teams = <<>>
    /\ matches = <<>>
    /\ player = PlayerConstructor("p1", "Forward", 1, 1, 1)
    /\ nYellow = 0
    /\ nRed = 0
    /\ last = [op |-> "League.constructor", args |-> <<"League">>, ret |-> undefined]

NextLeague ==
    \/ \E name \in TeamNames : addNewTeam(name)
    \/ \E team \in DOMAIN teamObjs \cup {null} : addTeam(team)
    \/ \E name \in TeamNames : removeTeam(name)
    \/ \E name \in TeamNames : LeagueGetTeam(name)
    \/ \E h \in TeamNames, a \in TeamNames, hg \in Goals, ag \in Goals :
          recordMatch(h, a, hg, ag)
    \/ LeagueGetStandings
    \/ LeagueGetInfo

SpecLeague == InitLeague /\ [][NextLeague]_vars

----------------------------------------------------------------------------
(* Standings of a league whose teams bring statistics along *)

\* the name of a team that joins the league for one match
Guest == "guest"

\* league.addTeam(new Team(Guest)); league.recordMatch(homeTeamName, Guest,
\* homeGoals, awayGoals); league.removeTeam(Guest): the guest is the last
\* object of the heap, and no reference to it is kept
recordMatchWithGuest(homeTeamName, homeGoals, awayGoals) ==
    LET objs  == Append(teamObjs, TeamConstructor(Guest))
        guest == Len(objs)
        after == applyMatch(objs, getTeam(homeTeamName), guest,
                            homeGoals, awayGoals)
    IN  /\ getTeam(homeTeamName) # null
        /\ Len(matches) < MaxPlayed
        /\ teamObjs' = SubSeq(after, 1, Len(teamObjs))
        /\ matches' = Append(matches, matchRecord(homeTeamName, Guest,
                                                  homeGoals, awayGoals))
        /\ last' = [op |-> "removeTeam", args |-> <<Guest>>, ret |-> TRUE]
        /\ UNCHANGED <<teams, playerVars, appVars>>

\* a new League after addTeam(new Team(name)) for n teams of different names
InitStandings ==
    /\ InitApp
    /\ \E n \in 0..MaxStandTeams :
          /\ teamObjs = [i \in 1..n |-> TeamConstructor(ToString(i))]
          /\ teams = [i \in 1..n |-> i]
    /\ matches = <<>>
    /\ player = PlayerConstructor("p1", "Forward", 1, 1, 1)
    /\ nYellow = 0
    /\ nRed = 0
    /\ last = [op |-> "League.constructor", args |-> <<"League">>, ret |-> undefined]

NextStandings ==
    \/ \E i \in DOMAIN teams, hg \in Goals, ag \in Goals :
          recordMatchWithGuest(TeamAt(i).name, hg, ag)
    \/ LeagueGetStandings
    \/ LeagueGetInfo

SpecStandings == InitStandings /\ [][NextStandings]_vars

----------------------------------------------------------------------------
(* Team rosters.  A Team object holds its players in the field players;    *)
(* t is the id of a Team of the heap.  A call on a Player of a roster     *)
(* changes the object where the roster holds it.                           *)

\* names and first skill values of the Players given to addPlayer: two
\* Players of one name differ in their skills
RosterNames == {"p1", "p2"}

RosterSkills == {3, 7}

NewPlayers ==
    {PlayerConstructor(n, "Forward", s, s, s) : n \in RosterNames, s \in RosterSkills}

\* an object that is no instance of Player
NotAPlayer == [name |-> "p1"]

\* player instanceof Player: the object has what the constructor of Player sets
instanceofPlayer(x) == "overallRating" \in DOMAIN x

\* the skill arguments of an updateStats call on a Player of a roster
RosterSkillArgs == {<<0, 5, 11>>}

\* this.players.findIndex(p => p.name === playerName)
findPlayerIndex(players, playerName) ==
    IF \E i \in DOMAIN players : players[i].name = playerName
    THEN CHOOSE i \in DOMAIN players :
            /\ players[i].name = playerName
            /\ \A j \in 1..(i - 1) : players[j].name # playerName
    ELSE -1

\* addPlayer without the instanceof test
addPlayerUnchecked(t, p) ==
    /\ teamObjs' = [teamObjs EXCEPT ![t].players = Append(@, p)]
    /\ last' = [op |-> "addPlayer", args |-> <<t, p>>, ret |-> TRUE,
                before |-> teamObjs[t].players]
    /\ UNCHANGED <<teams, matches, playerVars, appVars>>

\* addPlayer that puts the new player in front (unshift instead of push)
addPlayerFront(t, p) ==
    /\ IF ~instanceofPlayer(p)
       THEN /\ last' = [op |-> "addPlayer", args |-> <<t, p>>, ret |-> FALSE,
                        before |-> teamObjs[t].players]
            /\ UNCHANGED teamObjs
       ELSE /\ teamObjs' = [teamObjs EXCEPT ![t].players = <<p>> \o @]
            /\ last' = [op |-> "addPlayer", args |-> <<t, p>>, ret |-> TRUE,
                        before |-> teamObjs[t].players]
    /\ UNCHANGED <<teams, matches, playerVars, appVars>>

\* team.addPlayer(p); last.before is the roster before the call
addPlayer(t, p) ==
    /\ IF ~instanceofPlayer(p)
       THEN /\ last' = [op |-> "addPlayer", args |-> <<t, p>>, ret |-> FALSE,
                        before |-> teamObjs[t].players]
            /\ UNCHANGED teamObjs
       ELSE /\ teamObjs' = [teamObjs EXCEPT ![t].players = Append(@, p)]
            /\ last' = [op |-> "addPlayer", args |-> <<t, p>>, ret |-> TRUE,
                        before |-> teamObjs[t].players]
    /\ UNCHANGED <<teams, matches, playerVars, appVars>>

\* removePlayer without the test for index -1: splice(-1, 1) takes the last
\* element of the roster
removePlayerNoTest(t, playerName) ==
    LET players == teamObjs[t].players
        index   == findPlayerIndex(players, playerName)
    IN  /\ teamObjs' = [teamObjs EXCEPT ![t].players =
               IF index = -1 THEN SubSeq(players, 1, Len(players) - 1)
               ELSE splice(players, index)]
        /\ last' = [op |-> "removePlayer", args |-> <<t, playerName>>, ret |-> TRUE]
        /\ UNCHANGED <<teams, matches, playerVars, appVars>>

\* removePlayer that takes the first player of the roster, whatever its name
removePlayerShift(t, playerName) ==
    LET players == teamObjs[t].players
        index   == findPlayerIndex(players, playerName)
    IN  /\ IF index = -1
           THEN /\ last' = [op |-> "removePlayer", args |-> <<t, playerName>>,
                            ret |-> FALSE]
                /\ UNCHANGED teamObjs
           ELSE /\ teamObjs' = [teamObjs EXCEPT ![t].players = Tail(players)]
                /\ last' = [op |-> "removePlayer", args |-> <<t, playerName>>,
                            ret |-> TRUE]
        /\ UNCHANGED <<teams, matches, playerVars, appVars>>

\* team.removePlayer(playerName)
removePlayer(t, playerName) ==
    LET players == teamObjs[t].players
        index   == findPlayerIndex(players, playerName)
    IN  /\ IF index = -1
           THEN /\ last' = [op |-> "removePlayer", args |-> <<t, playerName>>,
                            ret |-> FALSE]
                /\ UNCHANGED teamObjs
           ELSE /\ teamObjs' = [teamObjs EXCEPT ![t].players = splice(players, index)]
                /\ last' = [op |-> "removePlayer", args |-> <<t, playerName>>,
                            ret |-> TRUE]
        /\ UNCHANGED <<teams, matches, playerVars, appVars>>

\* getPlayer that returns the last player of that name
getPlayerLast(t, playerName) ==
    LET players == teamObjs[t].players
        named   == {i \in DOMAIN players : players[i].name = playerName}
    IN  IF named = {} THEN null
        ELSE players[CHOOSE i \in named : \A j \in named : j <= i]

\* this.players.find(p => p.name === playerName) || null
getPlayer(t, playerName) ==
    LET players == teamObjs[t].players
        index   == findPlayerIndex(players, playerName)
    IN  IF index = -1 THEN null ELSE players[index]

\* team.getPlayer(playerName)
TeamGetPlayer(t, playerName) ==
    /\ last' = [op |-> "getPlayer", args |-> <<t, playerName>>,
                ret |-> getPlayer(t, playerName)]
    /\ UNCHANGED <<leagueVars, playerVars, appVars>>

\* team.getTeamInfo()
TeamGetInfo(t) ==
    /\ last' = [op |-> "getTeamInfo", args |-> <<t>>, ret |-> getTeamInfo(teamObjs[t])]
    /\ UNCHANGED <<leagueVars, playerVars, appVars>>

\* team.updateStats(goalsScored, goalsConceded, pointsEarned), called on the
\* Team itself
TeamCallUpdateStats(t, goalsScored, goalsConceded, pointsEarned) ==
    /\ teamObjs' = [teamObjs EXCEPT ![t] =
           TeamUpdateStats(@, goalsScored, goalsConceded, pointsEarned)]
    /\ last' = [op |-> "Team.updateStats",
                args |-> <<t, goalsScored, goalsConceded, pointsEarned>>,
                ret |-> undefined]
    /\ UNCHANGED <<teams, matches, playerVars, appVars>>

\* team.players[i].updateStats(newPace, newShooting, newPassing)
rosterUpdateStats(t, i, newPace, newShooting, newPassing) ==
    /\ teamObjs' = [teamObjs EXCEPT ![t].players[i] =
           PlayerUpdateStatsResult(@, newPace, newShooting, newPassing)]
    /\ last' = [op |-> "Player.updateStats",
                args |-> <<t, i, newPace, newShooting, newPassing>>,
                ret |-> undefined]
    /\ UNCHANGED <<teams, matches, playerVars, appVars>>

\* team.players[i].setInjuryStatus(isInjured)
rosterSetInjuryStatus(t, i, isInjured) ==
    /\ teamObjs' = [teamObjs EXCEPT ![t].players[i].isInjured = isInjured]
    /\ last' = [op |-> "setInjuryStatus", args |-> <<t, i, isInjured>>,
                ret |-> undefined]
    /\ UNCHANGED <<teams, matches, playerVars, appVars>>

\* team.players[i].addCard(cardType)
rosterAddCard(t, i, cardType) ==
    /\ teamObjs' = [teamObjs EXCEPT ![t].players[i] = addCardResult(@, cardType)]
    /\ last' = [op |-> "addCard", args |-> <<t, i, cardType>>, ret |-> undefined]
    /\ UNCHANGED <<teams, matches, playerVars, appVars>>

\* team.players[i].getPlayerInfo()
rosterGetPlayerInfo(t, i) ==
    /\ last' = [op |-> "getPlayerInfo", args |-> <<t, i>>,
                ret |-> getPlayerInfo(teamObjs[t].players[i])]
    /\ UNCHANGED <<leagueVars, playerVars, appVars>>

----------------------------------------------------------------------------
(* One Team under all its methods *)

\* points a match can earn
PointsEarned == {0, 1, 3}

\* new Team(name)
InitTeam ==
    /\ InitApp
    /\ \E name \in TeamNames :
          /\ teamObjs = <<TeamConstructor(name)>>
          /\ last = [op |-> "Team.constructor", args |-> <<name>>, ret |-> undefined]
    /\ teams = <<>>
    /\ matches = <<>>
    /\ player = PlayerConstructor("p1", "Forward", 1, 1, 1)
    /\ nYellow = 0
    /\ nRed = 0

NextTeam ==
    \/ \E p \in NewPlayers :
          /\ Len(teamObjs[1].players) < MaxRoster
          /\ addPlayer(1, p)
    \/ addPlayer(1, NotAPlayer)
    \/ \E n \in RosterNames : removePlayer(1, n)
    \/ \E n \in RosterNames : TeamGetPlayer(1, n)
    \/ \E gs \in Goals, gc \in Goals, pts \in PointsEarned :
          /\ teamObjs[1].points + teamObjs[1].goalsFor + teamObjs[1].goalsAgainst < MaxTally
          /\ TeamCallUpdateStats(1, gs, gc, pts)
    \/ TeamGetInfo(1)

SpecTeam == InitTeam /\ [][NextTeam]_vars

----------------------------------------------------------------------------
(* A League, the rosters of its Teams and the Players of the rosters: the  *)
(* statistics of a Team change through recordMatch alone                   *)

RECURSIVE sumOf(_)
sumOf(s) == IF s = <<>> THEN 0 ELSE s[1] + sumOf(Tail(s))

\* the Players of all rosters
TotalPlayers == sumOf([t \in DOMAIN teamObjs |-> Len(teamObjs[t].players)])

\* the bound of the model leaves room for one more Team, match or Player
ClubRoom ==
    /\ Len(teamObjs) + Len(matches) + TotalPlayers < MaxClub
    /\ Len(teams) + Len(matches) + TotalPlayers < MaxClub

\* the Players of rosters as pairs of Team id and index
RosterSlots == {<<t, i>> \in (DOMAIN teamObjs) \X (1..MaxClub) : i <= Len(teamObjs[t].players)}

\* the calls whose effect the Player at index i of the roster of t carries:
\* its cards, its injury, and skills an updateStats call has set
CallsCarried(t, i) ==
    LET p == teamObjs[t].players[i]
    IN  p.yellowCards + p.redCards + (IF p.isInjured THEN 1 ELSE 0)
           + (IF p.pace # p.passing THEN 1 ELSE 0)

NextClub ==
    \/ \E name \in TeamNames : ClubRoom /\ addNewTeam(name)
    \/ \E team \in DOMAIN teamObjs \cup {null} :
          /\ team = null \/ ClubRoom
          /\ addTeam(team)
    \/ \E name \in TeamNames : removeTeam(name)
    \/ \E name \in TeamNames : LeagueGetTeam(name)
    \/ \E h \in TeamNames, a \in TeamNames, hg \in Goals, ag \in Goals :
          /\ ClubRoom \/ getTeam(h) = null \/ getTeam(a) = null
          /\ recordMatch(h, a, hg, ag)
    \/ LeagueGetStandings
    \/ LeagueGetInfo
    \/ \E t \in DOMAIN teamObjs, p \in NewPlayers : ClubRoom /\ addPlayer(t, p)
    \/ \E t \in DOMAIN teamObjs : addPlayer(t, NotAPlayer)
    \/ \E t \in DOMAIN teamObjs, n \in RosterNames : removePlayer(t, n)
    \/ \E t \in DOMAIN teamObjs, n \in RosterNames : TeamGetPlayer(t, n)
    \/ \E t \in DOMAIN teamObjs : TeamGetInfo(t)
    \/ \E s \in RosterSlots, a \in RosterSkillArgs :
          /\ CallsCarried(s[1], s[2]) < MaxRosterCalls
          /\ rosterUpdateStats(s[1], s[2], a[1], a[2], a[3])
    \/ \E s \in RosterSlots, b \in BOOLEAN :
          /\ b => CallsCarried(s[1], s[2]) < MaxRosterCalls
          /\ rosterSetInjuryStatus(s[1], s[2], b)
    \/ \E s \in RosterSlots, k \in CardTypes :
          /\ k \in {"yellow", "red"} => CallsCarried(s[1], s[2]) < MaxRosterCalls
          /\ rosterAddCard(s[1], s[2], k)
    \/ \E s \in RosterSlots : rosterGetPlayerInfo(s[1], s[2])

SpecClub == InitLeague /\ [][NextClub]_vars

----------------------------------------------------------------------------
(* script.js: the classes Player, Team and League of the page, and the     *)
(* handlers of its buttons.  scriptObjs is the heap of its Team objects,   *)
(* scriptTeams is premierLeague.teams.  Every handler ends with            *)
(* displayTeams, which builds the cards anew from premierLeague.teams, so  *)
(* the buttons of the page are those of the teams and players held now.    *)

\* what parseInt gives for a text that does not start with a number: a value
\* that no text of the model stands for
NaN == -1000

\* texts typed into a number field or a prompt; the empty text is also what
\* a cancelled prompt counts as
SkillTexts == {"", "-3", "7", "15"}

parseInt(text) ==
    CASE text = "-3" -> -3
      [] text = "7"  -> 7
      [] text = "15" -> 15
      [] OTHER       -> NaN

isNaN(x) == x = NaN

\* texts typed into a name field
NameTexts == {"", " A ", "A", "B"}

\* String.prototype.trim
trim(text) ==
    CASE text = " A " -> "A"
      [] text = " "   -> ""
      [] OTHER        -> text

\* new Player(name, position, pace, shooting, passing) of script.js
ScriptPlayer(name, position, pace, shooting, passing) ==
    [name     |-> name,
     position |-> position,
     pace     |-> pace,
     shooting |-> shooting,
     passing  |-> passing]

\* new Team(name) of script.js
ScriptTeam(name) == [name |-> name, players |-> <<>>]

\* Team.addPlayer of script.js, on the Team with id t of the heap objs
ScriptAddPlayer(objs, t, p) == [objs EXCEPT ![t].players = Append(@, p)]

\* Team.removePlayer of script.js: filter(player => player.name !== playerName)
ScriptRemovePlayer(objs, t, playerName) ==
    [objs EXCEPT ![t].players = SelectSeq(@, LAMBDA q : q.name # playerName)]

\* League.addTeam of script.js
ScriptAddTeam(ts, team) == Append(ts, team)

\* League.removeTeam of script.js: filter(team => team.name !== teamName)
ScriptRemoveTeam(objs, ts, teamName) ==
    SelectSeq(ts, LAMBDA id : objs[id].name # teamName)

\* the names of the teams of premierLeague, in its order
ScriptLeagueNames == [i \in DOMAIN scriptTeams |-> scriptObjs[scriptTeams[i]].name]

\* the players of all rosters of script.js
ScriptPlayers == sumOf([t \in DOMAIN scriptObjs |-> Len(scriptObjs[t].players)])

\* the bound of the model leaves room for one more Team or Player
ScriptRoom == Len(scriptObjs) + ScriptPlayers < MaxScript

\* the values that the team select can have: the names of its options, or
\* the empty text when it has none
SelectValues ==
    IF scriptTeams = <<>> THEN {""}
    ELSE {ScriptLeagueNames[i] : i \in DOMAIN scriptTeams}

\* the player rows of the page as pairs of a Team id and an index
ScriptRows ==
    {<<scriptTeams[k], r>> : k \in DOMAIN scriptTeams, r \in 1..MaxScript}
       \cap {<<t, r>> \in (DOMAIN scriptObjs) \X (1..MaxScript) :
                r <= Len(scriptObjs[t].players)}

\* League.addNewTeam: the click on Add Team
addNewTeamClick(text) ==
    LET teamName == trim(text)
        newTeam  == Len(scriptObjs) + 1
    IN  /\ IF teamName # ""
           THEN /\ scriptObjs' = Append(scriptObjs, ScriptTeam(teamName))
                /\ scriptTeams' = ScriptAddTeam(scriptTeams, newTeam)
           ELSE UNCHANGED <<scriptObjs, scriptTeams>>
        /\ last' = [op |-> "addNewTeam", args |-> <<text>>, ret |-> undefined]
        /\ UNCHANGED <<leagueVars, playerVars, dom>>

\* League.addNewPlayer: the click on Add Player, with the value of the team
\* select and the texts of the form
addNewPlayerClick(selected, nameText, position, paceText, shootingText, passingText) ==
    LET playerName == trim(nameText)
        pace       == parseInt(paceText)
        shooting   == parseInt(shootingText)
        passing    == parseInt(passingText)
        found      == {i \in DOMAIN scriptTeams : ScriptLeagueNames[i] = selected}
    IN  /\ IF /\ playerName # ""
              /\ ~isNaN(pace) /\ ~isNaN(shooting) /\ ~isNaN(passing)
              /\ found # {}
           THEN LET selectedTeam ==
                       scriptTeams[CHOOSE i \in found : \A j \in found : i <= j]
                IN  scriptObjs' = ScriptAddPlayer(scriptObjs, selectedTeam,
                        ScriptPlayer(playerName, position, pace, shooting, passing))
           ELSE UNCHANGED scriptObjs
        /\ last' = [op |-> "addNewPlayer",
                    args |-> <<selected, nameText, position,
                               paceText, shootingText, passingText>>,
                    ret |-> undefined]
        /\ UNCHANGED <<scriptTeams, leagueVars, playerVars, dom>>

\* League.editPlayer(team, player): the click on Edit of the row of the
\* player at index r of Team t, and the texts given to the three prompts
editPlayer(t, r, paceText, shootingText, passingText) ==
    /\ IF paceText # "" /\ shootingText # "" /\ passingText # ""
       THEN scriptObjs' = [scriptObjs EXCEPT ![t].players[r] =
               [@ EXCEPT !.pace     = parseInt(paceText),
                         !.shooting = parseInt(shootingText),
                         !.passing  = parseInt(passingText)]]
       ELSE UNCHANGED scriptObjs
    /\ last' = [op |-> "editPlayer",
                args |-> <<t, r, paceText, shootingText, passingText>>,
                ret |-> undefined]
    /\ UNCHANGED <<scriptTeams, leagueVars, playerVars, dom>>

\* the click on Remove Team of the card at index k: this.removeTeam(team.name)
removeTeamClick(k) ==
    /\ scriptTeams' = ScriptRemoveTeam(scriptObjs, scriptTeams, ScriptLeagueNames[k])
    /\ last' = [op |-> "removeTeamClick", args |-> <<k>>, ret |-> undefined]
    /\ UNCHANGED <<scriptObjs, leagueVars, playerVars, dom>>

\* the click on Remove of the row of the player at index r of Team t:
\* team.removePlayer(player.name)
removePlayerClick(t, r) ==
    /\ scriptObjs' = ScriptRemovePlayer(scriptObjs, t, scriptObjs[t].players[r].name)
    /\ last' = [op |-> "removePlayerClick", args |-> <<t, r>>, ret |-> undefined]
    /\ UNCHANGED <<scriptTeams, leagueVars, playerVars, dom>>

\* the page after script.js has run and the user has removed the initial
\* teams, all of them or all but Arsenal, and of Arsenal all players but
\* Player 1
InitScript ==
    /\ \/ /\ scriptObjs = <<>>
          /\ scriptTeams = <<>>
       \/ /\ scriptObjs = <<[name    |-> "Arsenal",
                             players |-> <<ScriptPlayer("Player 1", "Forward", 9, 8, 7)>>]>>
          /\ scriptTeams = <<1>>
    /\ dom = emptyPage
    /\ teamObjs = <<>>
    /\ teams = <<>>
    /\ matches = <<>>
    /\ player = PlayerConstructor("p1", "Forward", 1, 1, 1)
    /\ nYellow = 0
    /\ nRed = 0
    /\ last = [op |-> "window.onload", args |-> <<>>, ret |-> undefined]

NextScript ==
    \/ \E text \in NameTexts :
          /\ trim(text) # "" => ScriptRoom
          /\ addNewTeamClick(text)
    \/ \E selected \in SelectValues, nameText \in NameTexts,
          paceText \in SkillTexts, shootingText \in SkillTexts,
          passingText \in SkillTexts :
          /\ ScriptRoom
          /\ addNewPlayerClick(selected, nameText, "Forward",
                               paceText, shootingText, passingText)
    \/ \E row \in ScriptRows, paceText \in SkillTexts,
          shootingText \in SkillTexts, passingText \in SkillTexts :
          editPlayer(row[1], row[2], paceText, shootingText, passingText)
    \/ \E k \in DOMAIN scriptTeams : removeTeamClick(k)
    \/ \E row \in ScriptRows : removePlayerClick(row[1], row[2])

SpecScript == InitScript /\ [][NextScript]_vars

----------------------------------------------------------------------------
(* The classes of script.js beside the classes of js/classes: one Team of *)
(* each kind and one League of each kind, given the same calls.  The Teams *)
(* with id 1 of the two heaps are the two Teams; they are in no league.    *)

\* both Teams, named T, and both Leagues after construction
InitVariants ==
    /\ teamObjs = <<TeamConstructor("T")>>
    /\ teams = <<>>
    /\ matches = <<>>
    /\ scriptObjs = <<ScriptTeam("T")>>
    /\ scriptTeams = <<>>
    /\ dom = emptyPage
    /\ player = PlayerConstructor("p1", "Forward", 1, 1, 1)
    /\ nYellow = 0
    /\ nRed = 0
    /\ last = [op |-> "constructor", args |-> <<"T">>, ret |-> undefined]

\* addPlayer(new Player(name, "Forward", s, s, s)) on both Teams
bothAddPlayer(name, s) ==
    /\ teamObjs' = [teamObjs EXCEPT ![1].players =
           Append(@, PlayerConstructor(name, "Forward", s, s, s))]
    /\ scriptObjs' = ScriptAddPlayer(scriptObjs, 1,
           ScriptPlayer(name, "Forward", s, s, s))
    /\ last' = [op |-> "addPlayer", args |-> <<name, s>>, ret |-> TRUE]
    /\ UNCHANGED <<teams, matches, scriptTeams, playerVars, dom>>

\* removePlayer(playerName) on both Teams; ret is what the Team of
\* js/classes returns
bothRemovePlayer(playerName) ==
    LET players == teamObjs[1].players
        index   == findPlayerIndex(players, playerName)
    IN  /\ teamObjs' = IF index = -1 THEN teamObjs
                       ELSE [teamObjs EXCEPT ![1].players = splice(players, index)]
        /\ scriptObjs' = ScriptRemovePlayer(scriptObjs, 1, playerName)
        /\ last' = [op |-> "removePlayer", args |-> <<playerName>>,
                    ret |-> index # -1]
        /\ UNCHANGED <<teams, matches, scriptTeams, playerVars, dom>>

\* addTeam(new Team(name)) on both Leagues
bothAddTeam(name) ==
    /\ teamObjs' = Append(teamObjs, TeamConstructor(name))
    /\ teams' = Append(teams, Len(teamObjs) + 1)
    /\ scriptObjs' = Append(scriptObjs, ScriptTeam(name))
    /\ scriptTeams' = ScriptAddTeam(scriptTeams, Len(scriptObjs) + 1)
    /\ last' = [op |-> "addTeam", args |-> <<name>>, ret |-> TRUE]
    /\ UNCHANGED <<matches, playerVars, dom>>

\* removeTeam(teamName) on both Leagues; ret is what the League of
\* js/classes returns
bothRemoveTeam(teamName) ==
    /\ teams' = IF findIndex(teamName) = -1 THEN teams
                ELSE splice(teams, findIndex(teamName))
    /\ scriptTeams' = ScriptRemoveTeam(scriptObjs, scriptTeams, teamName)
    /\ last' = [op |-> "removeTeam", args |-> <<teamName>>,
                ret |-> findIndex(teamName) # -1]
    /\ UNCHANGED <<teamObjs, scriptObjs, matches, playerVars, dom>>

NextVariants ==
    \/ \E name \in RosterNames, s \in RosterSkills :
          /\ Len(teamObjs[1].players) < MaxVariant
          /\ bothAddPlayer(name, s)
    \/ \E name \in RosterNames : bothRemovePlayer(name)
    \/ \E name \in TeamNames :
          /\ Len(teamObjs) <= MaxVariant
          /\ bothAddTeam(name)
    \/ \E name \in TeamNames : bothRemoveTeam(name)

SpecVariants == InitVariants /\ [][NextVariants]_vars

----------------------------------------------------------------------------
(* UIManager: the page of the League of js/classes.  dom.teamSelect holds  *)
(* the values of the options of the team select, dom.cards the team cards  *)
(* of the teams container, dom.modal the edit form while it is open.  A    *)
(* card keeps the Team that its Remove Team button closes over, a row the  *)
(* index that the Player of its buttons has in the roster of that Team.    *)
(* The overlay of the edit form covers the page: while it is open, Save    *)
(* and Cancel are the buttons that can be clicked.                         *)

\* texts typed into the number fields of the page
UiSkillTexts == {"", "7", "15"}

\* texts typed into the name fields of the page
UiNameTexts == {"", " A ", "A"}

\* updateTeamSelect that does not clear the select before it adds the options
updateTeamSelectNoClear(objs, ts) ==
    dom.teamSelect \o [k \in DOMAIN ts |-> objs[ts[k]].name]

\* updateTeamSelect: an option for every team of league.teams
updateTeamSelect(objs, ts) == [k \in DOMAIN ts |-> objs[ts[k]].name]

\* createPlayerElement(team, player), player at index r of the roster
createPlayerElement(objs, team, r) ==
    [player |-> r, text |-> objs[team].players[r].name]

\* createTeamCard(team)
createTeamCard(objs, team) ==
    [team |-> team,
     name |-> objs[team].name,
     rows |-> [r \in DOMAIN objs[team].players |-> createPlayerElement(objs, team, r)]]

\* displayTeams: a card for every team of league.teams
displayTeams(objs, ts) == [k \in DOMAIN ts |-> createTeamCard(objs, ts[k])]

\* the page after updateDisplay, without a modal
updateDisplay(objs, ts) ==
    [teamSelect |-> updateTeamSelect(objs, ts),
     cards      |-> displayTeams(objs, ts),
     modal      |-> <<>>]

\* the Players of all rosters of the heap
UiPlayers == sumOf([t \in DOMAIN teamObjs |-> Len(teamObjs[t].players)])

\* the bound of the model leaves room for one more Team or Player
UiRoom == Len(teamObjs) + UiPlayers < MaxUi

\* the values that the team select can have: those of its options, or the
\* empty text when it has none
UiSelectValues ==
    IF dom.teamSelect = <<>> THEN {""}
    ELSE {dom.teamSelect[i] : i \in DOMAIN dom.teamSelect}

\* the rows of the page as pairs of the index of a card and the index of a row
UiRows ==
    {<<k, r>> \in (1..MaxUi) \X (1..MaxUi) :
        k \in DOMAIN dom.cards /\ r \in DOMAIN dom.cards[k].rows}

\* the click on Add Team, with the text of the name field
handleAddTeam(text) ==
    LET teamName == trim(text)
        objs     == Append(teamObjs, TeamConstructor(teamName))
        ts       == Append(teams, Len(teamObjs) + 1)
    IN  /\ dom.modal = <<>>
        /\ IF teamName # ""
           THEN /\ teamObjs' = objs
                /\ teams' = ts
                /\ dom' = updateDisplay(objs, ts)
           ELSE UNCHANGED <<teamObjs, teams, dom>>
        /\ last' = [op |-> "handleAddTeam", args |-> <<text>>, ret |-> undefined]
        /\ UNCHANGED <<matches, playerVars, scriptObjs, scriptTeams>>

\* the click on Add Player, with the value of the team select and the
\* texts of the form
handleAddPlayer(selected, firstText, lastText, position, paceText, shootingText, passingText) ==
    LET firstName    == trim(firstText)
        lastName     == trim(lastText)
        pace         == parseInt(paceText)
        shooting     == parseInt(shootingText)
        passing      == parseInt(passingText)
        selectedTeam == getTeam(selected)
        newPlayer    == PlayerConstructor(firstName \o " " \o lastName, position,
                                          pace, shooting, passing)
        objs         == [teamObjs EXCEPT ![selectedTeam].players = Append(@, newPlayer)]
    IN  /\ dom.modal = <<>>
        /\ IF /\ firstName # "" /\ lastName # ""
              /\ ~isNaN(pace) /\ ~isNaN(shooting) /\ ~isNaN(passing)
              /\ selectedTeam # null
           THEN /\ teamObjs' = objs
                /\ dom' = updateDisplay(objs, teams)
           ELSE UNCHANGED <<teamObjs, dom>>
        /\ last' = [op |-> "handleAddPlayer",
                    args |-> <<selected, firstText, lastText, position,
                               paceText, shootingText, passingText>>,
                    ret |-> undefined]
        /\ UNCHANGED <<teams, matches, playerVars, scriptObjs, scriptTeams>>

\* the click on Remove Team of the card at index k:
\* this.league.removeTeam(team.name); this.updateDisplay()
removeTeamButton(k) ==
    LET teamName == teamObjs[dom.cards[k].team].name
        ts       == IF findIndex(teamName) = -1 THEN teams
                    ELSE splice(teams, findIndex(teamName))
    IN  /\ dom.modal = <<>>
        /\ teams' = ts
        /\ dom' = updateDisplay(teamObjs, ts)
        /\ last' = [op |-> "removeTeamButton", args |-> <<k>>, ret |-> undefined]
        /\ UNCHANGED <<teamObjs, matches, playerVars, scriptObjs, scriptTeams>>

\* the click on Remove of row r of the card at index k:
\* team.removePlayer(player.name); this.updateDisplay()
removePlayerButton(k, r) ==
    LET team       == dom.cards[k].team
        players    == teamObjs[team].players
        playerName == players[dom.cards[k].rows[r].player].name
        index      == findPlayerIndex(players, playerName)
        objs       == IF index = -1 THEN teamObjs
                      ELSE [teamObjs EXCEPT ![team].players = splice(players, index)]
    IN  /\ dom.modal = <<>>
        /\ teamObjs' = objs
        /\ dom' = updateDisplay(objs, teams)
        /\ last' = [op |-> "removePlayerButton", args |-> <<k, r>>, ret |-> undefined]
        /\ UNCHANGED <<teams, matches, playerVars, scriptObjs, scriptTeams>>

\* the click on Edit of row r of the card at index k: handleEditPlayer(team,
\* player) puts the edit form on the page
handleEditPlayer(k, r) ==
    /\ dom.modal = <<>>
    /\ dom' = [dom EXCEPT !.modal =
           <<[team |-> dom.cards[k].team, player |-> dom.cards[k].rows[r].player]>>]
    /\ last' = [op |-> "handleEditPlayer", args |-> <<k, r>>, ret |-> undefined]
    /\ UNCHANGED <<leagueVars, playerVars, scriptObjs, scriptTeams>>

\* the click on Save of the edit form, with the texts of its three fields
saveButton(paceText, shootingText, passingText) ==
    LET newPace     == parseInt(paceText)
        newShooting == parseInt(shootingText)
        newPassing  == parseInt(passingText)
        form        == dom.modal[1]
        objs        == [teamObjs EXCEPT ![form.team].players[form.player] =
                           PlayerUpdateStatsResult(@, newPace, newShooting, newPassing)]
    IN  /\ dom.modal # <<>>
        /\ IF ~isNaN(newPace) /\ ~isNaN(newShooting) /\ ~isNaN(newPassing)
           THEN /\ teamObjs' = objs
                /\ dom' = updateDisplay(objs, teams)
           ELSE /\ dom' = [dom EXCEPT !.modal = <<>>]
                /\ UNCHANGED teamObjs
        /\ last' = [op |-> "saveButton",
                    args |-> <<paceText, shootingText, passingText>>,
                    ret |-> undefined]
        /\ UNCHANGED <<teams, matches, playerVars, scriptObjs, scriptTeams>>

\* the click on Cancel of the edit form
cancelButton ==
    /\ dom.modal # <<>>
    /\ dom' = [dom EXCEPT !.modal = <<>>]
    /\ last' = [op |-> "cancelButton", args |-> <<>>, ret |-> undefined]
    /\ UNCHANGED <<leagueVars, playerVars, scriptObjs, scriptTeams>>

\* new UIManager(new League("League")): a league without teams, a page
\* without options and cards
InitUi ==
    /\ teamObjs = <<>>
    /\ teams = <<>>
    /\ matches = <<>>
    /\ dom = emptyPage
    /\ scriptObjs = <<>>
    /\ scriptTeams = <<>>
    /\ player = PlayerConstructor("p1", "Forward", 1, 1, 1)
    /\ nYellow = 0
    /\ nRed = 0
    /\ last = [op |-> "UIManager.constructor", args |-> <<>>, ret |-> undefined]

NextUi ==
    \/ \E text \in UiNameTexts :
          /\ trim(text) # "" => UiRoom
          /\ handleAddTeam(text)
    \/ \E selected \in UiSelectValues, firstText \in UiNameTexts,
          lastText \in UiNameTexts, paceText \in UiSkillTexts,
          shootingText \in UiSkillTexts, passingText \in UiSkillTexts :
          /\ UiRoom
          /\ handleAddPlayer(selected, firstText, lastText, "Forward",
                             paceText, shootingText, passingText)
    \/ \E k \in DOMAIN dom.cards : removeTeamButton(k)
    \/ \E row \in UiRows : removePlayerButton(row[1], row[2])
    \/ \E row \in UiRows : handleEditPlayer(row[1], row[2])
    \/ \E paceText \in UiSkillTexts, shootingText \in UiSkillTexts,
          passingText \in UiSkillTexts :
          saveButton(paceText, shootingText, passingText)
    \/ cancelButton

SpecUi == InitUi /\ [][NextUi]_vars

----------------------------------------------------------------------------
(* Properties of League *)

NameInLeague(n) == \E i \in DOMAIN teams : teamObjs[teams[i]].name = n

\* the Team that name n stands for: the first of league.teams with that name
Resolve(n) ==
    teams[CHOOSE i \in DOMAIN teams :
             /\ teamObjs[teams[i]].name = n
             /\ \A j \in 1..(i - 1) : teamObjs[teams[j]].name # n]

\* C1: a recordMatch call in which the home name or the away name (or only
\* one of the two) names no team of the league returns false and leaves
\* every team's points, goalsFor and goalsAgainst, the team sequence and the
\* match log as they were.
C1_RecordMatchAtomic ==
    [][(/\ last'.op = "recordMatch"
        /\ ~(NameInLeague(last'.args[1]) /\ NameInLeague(last'.args[2]))) =>
          /\ last'.ret = FALSE
          /\ teamObjs' = teamObjs
          /\ teams' = teams
          /\ matches' = matches]_vars

\* a failed recordMatch whose home team is in the league, with a match played
\* before, and whose away team is not
C1_Witness ==
    /\ last.op = "recordMatch"
    /\ last.ret = FALSE
    /\ NameInLeague(last.args[1])
    /\ ~NameInLeague(last.args[2])
    /\ teamObjs[Resolve(last.args[1])].points > 0
    /\ Len(matches) = 1

\* a step of a successful recordMatch between teams of two different names
RecordedMatch ==
    /\ last'.op = "recordMatch"
    /\ last'.ret = TRUE
    /\ last'.args[1] # last'.args[2]
    /\ NameInLeague(last'.args[1])
    /\ NameInLeague(last'.args[2])

\* C2: a successful recordMatch between two distinct teams adds 3 points to
\* the home team and 0 to the away team when homeGoals > awayGoals, 3 to the
\* away team and 0 to the home team when homeGoals < awayGoals, and exactly 1
\* to each when the goals are equal.
C2_PointsRule ==
    [][RecordedMatch =>
          LET home == Resolve(last'.args[1])
              away == Resolve(last'.args[2])
              hg   == last'.args[3]
              ag   == last'.args[4]
              dh   == teamObjs'[home].points - teamObjs[home].points
              da   == teamObjs'[away].points - teamObjs[away].points
          IN  /\ hg > ag => (dh = 3 /\ da = 0)
              /\ hg < ag => (dh = 0 /\ da = 3)
              /\ hg = ag => (dh = 1 /\ da = 1)]_vars

\* a 1-1 draw just recorded: the two teams hold one point each
C2_Witness ==
    /\ last.op = "recordMatch"
    /\ last.ret = TRUE
    /\ last.args[1] # last.args[2]
    /\ last.args[3] = 1
    /\ last.args[4] = 1
    /\ teamObjs[Resolve(last.args[1])].points = 1
    /\ teamObjs[Resolve(last.args[2])].points = 1

\* C3: a successful recordMatch(A, B, hg, ag) with A and B distinct teams of
\* the league adds hg to A.goalsFor and ag to A.goalsAgainst, ag to
\* B.goalsFor and hg to B.goalsAgainst, changes no other team, and appends
\* exactly one entry, carrying (A, B, hg, ag), at the end of the match log.
C3_GoalsAndLog ==
    [][RecordedMatch =>
          LET home == Resolve(last'.args[1])
              away == Resolve(last'.args[2])
              hg   == last'.args[3]
              ag   == last'.args[4]
          IN  /\ teamObjs'[home].goalsFor = teamObjs[home].goalsFor + hg
              /\ teamObjs'[home].goalsAgainst = teamObjs[home].goalsAgainst + ag
              /\ teamObjs'[away].goalsFor = teamObjs[away].goalsFor + ag
              /\ teamObjs'[away].goalsAgainst = teamObjs[away].goalsAgainst + hg
              /\ DOMAIN teamObjs' = DOMAIN teamObjs
              /\ \A t \in DOMAIN teamObjs \ {home, away} :
                    teamObjs'[t] = teamObjs[t]
              /\ teams' = teams
              /\ Len(matches') = Len(matches) + 1
              /\ SubSeq(matches', 1, Len(matches)) = matches
              /\ matches'[Len(matches')] =
                    [homeTeam  |-> last'.args[1], awayTeam  |-> last'.args[2],
                     homeGoals |-> hg, awayGoals |-> ag]]_vars

\* a 1-0 win recorded in a league of three teams
C3_Witness ==
    /\ last.op = "recordMatch"
    /\ last.ret = TRUE
    /\ last.args[1] # last.args[2]
    /\ last.args[3] = 1
    /\ last.args[4] = 0
    /\ Len(teams) = 3
    /\ Cardinality({teams[i] : i \in DOMAIN teams}) = 3
    /\ Len(matches) = 1

\* C4: the match log only grows at its end: in every step of a League
\* operation (addTeam, removeTeam, getTeam, recordMatch, getStandings,
\* getLeagueInfo) the log before the step is a prefix of the log after it,
\* so no entry is removed or altered and the length never decreases.
C4_LogAppendOnly ==
    [][/\ Len(matches) <= Len(matches')
       /\ SubSeq(matches', 1, Len(matches)) = matches]_vars

\* a team of two logged matches has just been removed
C4_Witness ==
    /\ last.op = "removeTeam"
    /\ last.ret = TRUE
    /\ Len(matches) = 2
    /\ matches[1].homeTeam = last.args[1]
    /\ matches[2].awayTeam = last.args[1]

GoalDiff(t) == t.goalsFor - t.goalsAgainst

\* the team at index i of league.teams goes before the one at index j
Before(i, j) ==
    LET a == TeamAt(i)
        b == TeamAt(j)
    IN  \/ a.points > b.points
        \/ a.points = b.points /\ GoalDiff(a) > GoalDiff(b)
        \/ a.points = b.points /\ GoalDiff(a) = GoalDiff(b) /\ i < j

\* st holds one snapshot per entry of league.teams, by points descending,
\* then goal difference descending, then the order of league.teams
IsStandings(st) ==
    /\ Len(st) = Len(teams)
    /\ \E f \in Permutations(1..Len(teams)) :
          /\ \A k \in 1..Len(teams) : st[k] = getTeamInfo(TeamAt(f[k]))
          /\ \A j, k \in 1..Len(teams) : j < k => Before(f[j], f[k])

\* C5: getStandings returns one snapshot per team of the league, ordered by
\* points descending, then goal difference descending; teams equal in both
\* keep the order they have in the league's team sequence.  The standings
\* field of getLeagueInfo is the same list.
C5_StandingsOrder ==
    /\ last.op = "getStandings" => IsStandings(last.ret)
    /\ last.op = "getLeagueInfo" => IsStandings(last.ret.standings)

\* three teams: the second of the league leads on points with the lowest
\* goal difference, the other two are level and keep their order
C5_Witness ==
    /\ last.op = "getStandings"
    /\ Len(teams) = 3
    /\ last.ret[1].name = TeamAt(2).name
    /\ last.ret[1].stats.goalDifference < last.ret[2].stats.goalDifference
    /\ last.ret[2].name = TeamAt(1).name
    /\ last.ret[2].stats = last.ret[3].stats

----------------------------------------------------------------------------
(* Properties of Player *)

\* the value of [1, 10] nearest to the integer v
Clamped(v) == IF v < 1 THEN 1 ELSE IF v > 10 THEN 10 ELSE v

SkillSum(p) == p.pace + p.shooting + p.passing

\* C6: in every state of a Player pace, shooting and passing are integers
\* of [1, 10], and right after the constructor or an updateStats call each
\* skill is the clamped value of the integer argument passed for it.
C6_SkillsClamped ==
    /\ player.pace \in 1..10
    /\ player.shooting \in 1..10
    /\ player.passing \in 1..10
    /\ last.op = "Player.updateStats" =>
          /\ player.pace = Clamped(last.args[1])
          /\ player.shooting = Clamped(last.args[2])
          /\ player.passing = Clamped(last.args[3])
    /\ last.op = "Player.constructor" =>
          /\ player.pace = Clamped(last.args[3])
          /\ player.shooting = Clamped(last.args[4])
          /\ player.passing = Clamped(last.args[5])

\* an updateStats call with a pace below 1 and a shooting above 10
C6_Witness ==
    /\ last.op = "Player.updateStats"
    /\ last.args[1] < 1
    /\ last.args[2] > 10
    /\ player.pace = 1
    /\ player.shooting = 10

\* C7: in every state of a Player (after the constructor, after updateStats
\* and after setInjuryStatus, addCard and getPlayerInfo) overallRating is
\* (pace + shooting + passing) / 3 rounded half up, taken of the stored
\* skills: the integer r with r <= s/3 + 1/2 < r + 1.
C7_RatingIsRoundedAverage ==
    /\ 6 * player.overallRating <= 2 * SkillSum(player) + 3
    /\ 2 * SkillSum(player) + 3 < 6 * player.overallRating + 6

\* a rating that was rounded up by updateStats and is still in place after
\* a later addCard
C7_Witness ==
    /\ last.op = "addCard"
    /\ SkillSum(player) % 3 = 2
    /\ 3 * player.overallRating > SkillSum(player)
    /\ SkillSum(player) > 3

\* C8: one addCard('yellow') on a new Player gives yellowCards = 1 and
\* redCards = 0, two give yellowCards = 0 and redCards = 1; every
\* addCard('yellow') at yellowCards = 0 sets yellowCards to 1 and leaves
\* redCards, and at yellowCards = 1 sets yellowCards to 0 and adds exactly 1
\* to redCards.
C8_YellowCards ==
    /\ []((nRed = 0 /\ nYellow = 1) =>
             (player.yellowCards = 1 /\ player.redCards = 0))
    /\ []((nRed = 0 /\ nYellow = 2) =>
             (player.yellowCards = 0 /\ player.redCards = 1))
    /\ [][(last'.op = "addCard" /\ last'.args = <<"yellow">>) =>
             /\ player.yellowCards = 0 =>
                   player' = [player EXCEPT !.yellowCards = 1]
             /\ player.yellowCards = 1 =>
                   player' = [player EXCEPT !.yellowCards = 0,
                                            !.redCards = player.redCards + 1]]_vars

\* two yellow cards and no red card given to a new Player
C8_Witness ==
    /\ last.op = "addCard"
    /\ nYellow = 2
    /\ nRed = 0
    /\ player.yellowCards = 0
    /\ player.redCards = 1

\* C9: whatever addCard calls ('yellow', 'red', other kinds) and other
\* Player operations were made, yellowCards is 0 or 1, redCards is not
\* negative, and no step lowers redCards.
C9_CardTallies ==
    /\ [](player.yellowCards \in {0, 1} /\ player.redCards >= 0)
    /\ [][player'.redCards >= player.redCards]_vars

\* three yellow cards: one is left in the tally, two went into a red card
C9_Witness ==
    /\ nYellow = 3
    /\ player.yellowCards = 1
    /\ player.redCards = 1

\* C10: addCard with a kind that is neither 'yellow' nor 'red' changes no
\* field of the Player.
C10_OtherCardIsNoOp ==
    [][(last'.op = "addCard" /\ last'.args[1] \notin {"yellow", "red"}) =>
          player' = player]_vars

\* addCard('green') on a Player that holds a yellow and a red card
C10_Witness ==
    /\ last.op = "addCard"
    /\ last.args = <<"green">>
    /\ player.yellowCards = 1
    /\ player.redCards = 1

----------------------------------------------------------------------------
(* Properties of the roster of a Team and of the teams of a League *)

\* the roster of the Team with id t
Roster(t) == teamObjs[t].players

InRoster(t, n) == \E i \in DOMAIN Roster(t) : Roster(t)[i].name = n

\* the names of the Teams that league.teams holds, in its order
LeagueNames == [i \in DOMAIN teams |-> teamObjs[teams[i]].name]

\* sequence after is sequence before without its element at index i
Without(after, before, i) ==
    /\ Len(after) = Len(before) - 1
    /\ \A k \in 1..(i - 1) : after[k] = before[k]
    /\ \A k \in i..(Len(before) - 1) : after[k] = before[k + 1]

\* C11: removePlayer with a name that no player of the roster has, and
\* removeTeam with a name that no team of the league has, return false and
\* leave the roster and the team sequence (every roster, every Team and the
\* match log as well) as they were: same length, same order.
C11_RemoveMissing ==
    [][/\ (last'.op = "removePlayer" /\ ~InRoster(last'.args[1], last'.args[2])) =>
             /\ last'.ret = FALSE
             /\ teamObjs' = teamObjs
             /\ teams' = teams
       /\ (last'.op = "removeTeam" /\ ~NameInLeague(last'.args[1])) =>
             /\ last'.ret = FALSE
             /\ teams' = teams
             /\ teamObjs' = teamObjs
             /\ matches' = matches]_vars

\* removePlayer has returned false on a roster that holds a player of
\* another name
C11_Witness ==
    /\ last.op = "removePlayer"
    /\ last.ret = FALSE
    /\ Roster(last.args[1]) # <<>>
    /\ ~InRoster(last.args[1], last.args[2])

\* C12: removePlayer with a name that a player of the roster has, and
\* removeTeam with a name that a team of the league has, return true and
\* take out the element of lowest index with that name: the collection is
\* one shorter and all other elements, later ones of the same name among
\* them, keep their order.
C12_RemoveFirstMatch ==
    [][/\ (last'.op = "removePlayer" /\ InRoster(last'.args[1], last'.args[2])) =>
             LET t == last'.args[1]
                 n == last'.args[2]
             IN  /\ last'.ret = TRUE
                 /\ \E i \in DOMAIN Roster(t) :
                       /\ Roster(t)[i].name = n
                       /\ \A j \in 1..(i - 1) : Roster(t)[j].name # n
                       /\ Without(teamObjs'[t].players, Roster(t), i)
                 /\ \A u \in DOMAIN teamObjs \ {t} : teamObjs'[u] = teamObjs[u]
       /\ (last'.op = "removeTeam" /\ NameInLeague(last'.args[1])) =>
             LET n == last'.args[1]
             IN  /\ last'.ret = TRUE
                 /\ \E i \in DOMAIN teams :
                       /\ LeagueNames[i] = n
                       /\ \A j \in 1..(i - 1) : LeagueNames[j] # n
                       /\ Without(teams', teams, i)]_vars

\* removeTeam has returned true and left two teams, the second of which has
\* the removed name, after a team of another name
C12_Witness ==
    /\ last.op = "removeTeam"
    /\ last.ret = TRUE
    /\ Len(teams) = 2
    /\ LeagueNames[1] # last.args[1]
    /\ LeagueNames[2] = last.args[1]

\* C13: on a roster in which no two players have one name, and for a Player
\* p whose name no player of the roster has, addPlayer(p) followed by
\* removePlayer(p.name) leaves the roster equal to the roster before the two
\* calls.
C13_AddRemoveRoundTrip ==
    [][(/\ last.op = "addPlayer"
        /\ last.ret = TRUE
        /\ last'.op = "removePlayer"
        /\ last'.args = <<last.args[1], last.args[2].name>>
        /\ \A i, j \in DOMAIN last.before :
              last.before[i].name = last.before[j].name => i = j
        /\ \A i \in DOMAIN last.before : last.before[i].name # last.args[2].name) =>
          /\ last'.ret = TRUE
          /\ teamObjs'[last.args[1]].players = last.before]_vars

\* removePlayer has returned true and left a roster of one player, of
\* another name
C13_Witness ==
    /\ last.op = "removePlayer"
    /\ last.ret = TRUE
    /\ Len(Roster(1)) = 1
    /\ Roster(1)[1].name # last.args[2]

\* points, goalsFor and goalsAgainst of a Team
Stats(t) == <<t.points, t.goalsFor, t.goalsAgainst>>

\* the three statistics summed over the teams that league.teams holds
Totals ==
    <<sumOf([i \in DOMAIN teams |-> teamObjs[teams[i]].points]),
      sumOf([i \in DOMAIN teams |-> teamObjs[teams[i]].goalsFor]),
      sumOf([i \in DOMAIN teams |-> teamObjs[teams[i]].goalsAgainst])>>

\* the statistics of every Team object are as they were
StatsKept == \A t \in DOMAIN teamObjs : Stats(teamObjs'[t]) = Stats(teamObjs[t])

\* the statement of C14 as the specification has it: every step other than
\* recordMatch and other than addTeam of a Team constructed earlier leaves
\* the totals over the teams of the league, and the statistics of every Team,
\* as they were.
C14_TotalsOnlyByRecordMatch ==
    [][(/\ last'.op # "recordMatch"
        /\ last'.op = "addTeam" => last'.args[1] \notin DOMAIN teamObjs) =>
          /\ Totals' = Totals
          /\ StatsKept]_vars

\* C14: no step other than recordMatch changes the statistics of any Team.
\* The totals over the teams of the league are changed by recordMatch, by
\* removeTeam, which lowers them by the statistics of the team it takes
\* out, and by addTeam, which raises them by the statistics of the team it
\* puts in (0 for a newly constructed Team); every other operation leaves
\* them as they were.
C14_TotalsFrame ==
    [][last'.op # "recordMatch" =>
          /\ StatsKept
          /\ IF last'.op = "removeTeam" /\ last'.ret = TRUE
             THEN LET removed == Stats(teamObjs[Resolve(last'.args[1])])
                  IN  \A k \in 1..3 : Totals'[k] = Totals[k] - removed[k]
             ELSE IF last'.op = "addTeam" /\ last'.ret = TRUE
             THEN LET added == Stats(teamObjs'[last'.args[1]])
                  IN  \A k \in 1..3 : Totals'[k] = Totals[k] + added[k]
             ELSE Totals' = Totals]_vars

\* removeTeam has taken the winner of the one match out of the league: the
\* Team object keeps its 3 points, the totals of the league have lost them
C14_Witness ==
    /\ last.op = "removeTeam"
    /\ last.ret = TRUE
    /\ Len(matches) = 1
    /\ Len(teams) = 1
    /\ Totals[1] = 0
    /\ \E t \in DOMAIN teamObjs :
          /\ teamObjs[t].name = last.args[1]
          /\ teamObjs[t].points = 3
          /\ \A i \in DOMAIN teams : teams[i] # t

\* C15: updateStats adds its three arguments to goalsFor, goalsAgainst and
\* points and leaves name, city, stadium and roster of the Team as they
\* were; a newly constructed Team has 0 in all three statistics.
C15_UpdateStatsAdds ==
    /\ [](last.op = "Team.constructor" =>
             /\ teamObjs[1].points = 0
             /\ teamObjs[1].goalsFor = 0
             /\ teamObjs[1].goalsAgainst = 0)
    /\ [][last'.op = "Team.updateStats" =>
             LET t == last'.args[1]
             IN  /\ teamObjs'[t].goalsFor = teamObjs[t].goalsFor + last'.args[2]
                 /\ teamObjs'[t].goalsAgainst = teamObjs[t].goalsAgainst + last'.args[3]
                 /\ teamObjs'[t].points = teamObjs[t].points + last'.args[4]
                 /\ teamObjs'[t].name = teamObjs[t].name
                 /\ teamObjs'[t].city = teamObjs[t].city
                 /\ teamObjs'[t].stadium = teamObjs[t].stadium
                 /\ teamObjs'[t].players = teamObjs[t].players]_vars

\* updateStats(1, 1, 3) on a Team that had statistics and a player before
C15_Witness ==
    /\ last.op = "Team.updateStats"
    /\ last.args = <<1, 1, 1, 3>>
    /\ teamObjs[1].goalsFor = 2
    /\ teamObjs[1].goalsAgainst = 1
    /\ teamObjs[1].points = 4
    /\ Roster(1) # <<>>

\* C16: getPlayer and getTeam return the element of lowest index whose name
\* is the name given when the collection has one, null when it has none (so
\* never an element of another name), and change nothing.
C16_GetFirstMatch ==
    [][/\ last'.op = "getPlayer" =>
             LET t == last'.args[1]
                 n == last'.args[2]
             IN  /\ IF InRoster(t, n)
                    THEN \E i \in DOMAIN Roster(t) :
                            /\ Roster(t)[i].name = n
                            /\ \A j \in 1..(i - 1) : Roster(t)[j].name # n
                            /\ last'.ret = Roster(t)[i]
                    ELSE last'.ret = null
                 /\ UNCHANGED <<teamObjs, teams, matches>>
       /\ last'.op = "getTeam" =>
             LET n == last'.args[1]
             IN  /\ IF NameInLeague(n)
                    THEN \E i \in DOMAIN teams :
                            /\ LeagueNames[i] = n
                            /\ \A j \in 1..(i - 1) : LeagueNames[j] # n
                            /\ last'.ret = teams[i]
                    ELSE last'.ret = null
                 /\ UNCHANGED <<teamObjs, teams, matches>>]_vars

\* getPlayer on a roster of two different players of the name asked for has
\* returned the first
C16_Witness ==
    /\ last.op = "getPlayer"
    /\ Len(Roster(last.args[1])) = 2
    /\ Roster(last.args[1])[1].name = last.args[2]
    /\ Roster(last.args[1])[2].name = last.args[2]
    /\ Roster(last.args[1])[1] # Roster(last.args[1])[2]
    /\ last.ret = Roster(last.args[1])[1]

\* C17: addPlayer with a Player and addTeam with a Team return true and put
\* the argument at the end of the collection, all elements before it staying
\* where they were; every step leaves a collection as it was, puts one
\* element at its end or takes one element out, so the elements are always in
\* the order in which they were added.
C17_AddAppends ==
    [][/\ (last'.op = "addPlayer" /\ instanceofPlayer(last'.args[2])) =>
             LET t == last'.args[1]
             IN  /\ last'.ret = TRUE
                 /\ teamObjs'[t].players = Append(Roster(t), last'.args[2])
                 /\ \A u \in DOMAIN teamObjs \ {t} : teamObjs'[u] = teamObjs[u]
       /\ (last'.op = "addTeam" /\ last'.args[1] # null) =>
             /\ last'.ret = TRUE
             /\ teams' = Append(teams, last'.args[1])
             /\ \A u \in DOMAIN teamObjs : teamObjs'[u] = teamObjs[u]
       /\ \/ teams' = teams
          \/ \E x \in DOMAIN teamObjs' : teams' = Append(teams, x)
          \/ \E i \in DOMAIN teams : Without(teams', teams, i)
       /\ \A t \in DOMAIN teamObjs :
             LET before == [i \in DOMAIN Roster(t) |-> Roster(t)[i].name]
                 after  == [i \in DOMAIN teamObjs'[t].players |->
                               teamObjs'[t].players[i].name]
             IN  \/ after = before
                 \/ \E n \in RosterNames : after = Append(before, n)
                 \/ \E i \in DOMAIN before : Without(after, before, i)]_vars

\* addPlayer has put a second, different player behind the first
C17_Witness ==
    /\ last.op = "addPlayer"
    /\ last.ret = TRUE
    /\ Len(Roster(last.args[1])) = 2
    /\ Roster(last.args[1])[2] = last.args[2]
    /\ Roster(last.args[1])[1] # last.args[2]

\* C18: addPlayer with an argument that is no Player and addTeam with an
\* argument that is no Team return false and leave the roster and the team
\* sequence as they were.
C18_AddRejects ==
    [][/\ (last'.op = "addPlayer" /\ ~instanceofPlayer(last'.args[2])) =>
             /\ last'.ret = FALSE
             /\ teamObjs' = teamObjs
             /\ teams' = teams
       /\ (last'.op = "addTeam" /\ last'.args[1] = null) =>
             /\ last'.ret = FALSE
             /\ teams' = teams
             /\ teamObjs' = teamObjs]_vars

\* addPlayer has turned down an object that is no Player, on a Team with a
\* player in its roster
C18_Witness ==
    /\ last.op = "addPlayer"
    /\ last.args[2] = NotAPlayer
    /\ last.ret = FALSE
    /\ Len(Roster(last.args[1])) = 1

\* the stats of snapshot e are the statistics of Team t, and its goal
\* difference is goalsFor less goalsAgainst
SnapshotOf(e, t) ==
    /\ e.stats.points = t.points
    /\ e.stats.goalsFor = t.goalsFor
    /\ e.stats.goalsAgainst = t.goalsAgainst
    /\ e.stats.goalDifference = t.goalsFor - t.goalsAgainst

\* every entry of the sequence of snapshots s is the snapshot of a team of
\* the league of the same name, and s has an entry for every team
SnapshotsOfLeague(s) ==
    /\ Len(s) = Len(teams)
    /\ \A k \in DOMAIN s :
          /\ s[k].stats.goalDifference = s[k].stats.goalsFor - s[k].stats.goalsAgainst
          /\ \E i \in DOMAIN teams :
                /\ s[k].name = teamObjs[teams[i]].name
                /\ SnapshotOf(s[k], teamObjs[teams[i]])

\* C19: in the snapshot that getTeamInfo returns, and in every entry of what
\* getStandings returns (and of the teams and standings of getLeagueInfo),
\* stats.points, stats.goalsFor and stats.goalsAgainst are the values the
\* team has at the call and stats.goalDifference is goalsFor - goalsAgainst.
C19_SnapshotStats ==
    [][/\ last'.op = "getTeamInfo" =>
             SnapshotOf(last'.ret, teamObjs[last'.args[1]])
       /\ last'.op = "getStandings" => SnapshotsOfLeague(last'.ret)
       /\ last'.op = "getLeagueInfo" =>
             /\ SnapshotsOfLeague(last'.ret.teams)
             /\ SnapshotsOfLeague(last'.ret.standings)]_vars

\* getStandings after one match: the loser's entry has 0 points and a goal
\* difference of -1
C19_Witness ==
    /\ last.op = "getStandings"
    /\ Len(last.ret) = 2
    /\ last.ret[2].stats.points = 0
    /\ last.ret[2].stats.goalsAgainst = 1
    /\ last.ret[2].stats.goalDifference = -1

\* C20: getPlayerInfo, getTeamInfo, getStandings and getLeagueInfo change no
\* field of any Player, Team or League; after getStandings the teams of the
\* league are in the order they had before, the order in which they were
\* added.
C20_QueriesArePure ==
    [][last'.op \in {"getPlayerInfo", "getTeamInfo", "getStandings", "getLeagueInfo"} =>
          /\ teamObjs' = teamObjs
          /\ teams' = teams
          /\ matches' = matches
          /\ player' = player]_vars

\* getStandings has put the team added second first, and the league still
\* holds the team added first at index 1
C20_Witness ==
    /\ last.op = "getStandings"
    /\ Len(teams) = 2
    /\ teams = <<1, 2>>
    /\ teamObjs[1].name # teamObjs[2].name
    /\ last.ret[1].name = teamObjs[2].name
    /\ last.ret[2].name = teamObjs[1].name

----------------------------------------------------------------------------
(* Frames and accounts of Player and League *)

\* the skill arguments of the call that last records
SkillArgs ==
    IF last.op = "Player.updateStats" THEN {last.args[k] : k \in 1..3}
    ELSE IF last.op = "Player.constructor" THEN {last.args[k] : k \in 3..5}
    ELSE {}

\* C21: setInjuryStatus changes isInjured and no other field of the Player;
\* addCard changes no field but yellowCards and redCards; updateStats changes
\* no field but pace, shooting, passing and overallRating.
C21_PlayerFrames ==
    [][/\ last'.op = "setInjuryStatus" =>
             player' = [player EXCEPT !.isInjured = last'.args[1]]
       /\ last'.op = "addCard" =>
             [player' EXCEPT !.yellowCards = player.yellowCards,
                             !.redCards    = player.redCards] = player
       /\ last'.op = "Player.updateStats" =>
             [player' EXCEPT !.pace          = player.pace,
                             !.shooting      = player.shooting,
                             !.passing       = player.passing,
                             !.overallRating = player.overallRating] = player]_vars

\* setInjuryStatus(true) on a Player that holds a yellow and a red card and
\* a rating above 1
C21_Witness ==
    /\ last.op = "setInjuryStatus"
    /\ last.args = <<TRUE>>
    /\ player.isInjured
    /\ player.yellowCards = 1
    /\ player.redCards = 1
    /\ player.overallRating > 1

\* C22: for every integer v passed as a skill, validateAttribute(v) is in
\* [1, 10], is v when v is in [1, 10], and validateAttribute of it is itself.
C22_ValidateAttribute ==
    \A v \in SkillArgs :
       /\ validateAttribute(v) \in 1..10
       /\ v \in 1..10 => validateAttribute(v) = v
       /\ validateAttribute(validateAttribute(v)) = validateAttribute(v)

\* an updateStats call with a pace above 10, a shooting below 1 and a
\* passing inside the range
C22_Witness ==
    /\ last.op = "Player.updateStats"
    /\ last.args[1] > 10
    /\ last.args[2] < 1
    /\ last.args[3] \in 2..10
    /\ player.pace = 10
    /\ player.shooting = 1
    /\ player.passing = last.args[3]

\* C29: after nYellow addCard('yellow') and nRed addCard('red') calls, in any
\* order and with any other calls between them, yellowCards is nYellow mod 2
\* and redCards is nRed + floor(nYellow / 2); addCard('red') leaves
\* yellowCards as it was.
C29_CardAccounting ==
    /\ [](/\ player.yellowCards = nYellow % 2
          /\ player.redCards = nRed + (nYellow \div 2))
    /\ [][(last'.op = "addCard" /\ last'.args = <<"red">>) =>
             player'.yellowCards = player.yellowCards]_vars

\* a red card given between two yellow cards: the red tally is 2, and a
\* call other than addCard was made last
C29_Witness ==
    /\ nYellow = 2
    /\ nRed = 1
    /\ player.yellowCards = 0
    /\ player.redCards = 2
    /\ last.op = "setInjuryStatus"

\* league.teams holds every Team that was constructed, once, in the order of
\* construction: no team was taken out, none was put in twice
NoRemoval == teams = [i \in 1..Len(teamObjs) |-> i]

\* C26: in a league from which no team was removed and whose teams were
\* added newly constructed, after any recordMatch calls, failed ones among
\* them, goalsFor summed over the teams equals goalsAgainst summed over the
\* teams, and the goal differences of the teams sum to 0.
C26_GoalConservation ==
    NoRemoval =>
       /\ Totals[2] = Totals[3]
       /\ sumOf([i \in DOMAIN teams |-> GoalDiff(teamObjs[teams[i]])]) = 0

\* two teams after two matches, the first team with more goals scored than
\* conceded
C26_Witness ==
    /\ NoRemoval
    /\ Len(teams) = 2
    /\ Len(matches) = 2
    /\ teamObjs[1].goalsFor > teamObjs[1].goalsAgainst
    /\ teamObjs[1].name # teamObjs[2].name

\* logged matches with a winner, and logged draws
Decisive == Len(SelectSeq(matches, LAMBDA m : m.homeGoals # m.awayGoals))

Draws == Len(SelectSeq(matches, LAMBDA m : m.homeGoals = m.awayGoals))

\* C27: in a league from which no team was removed and whose teams were
\* added newly constructed, the points summed over the teams are 3 for every
\* logged match with a winner plus 2 for every logged draw; the log grows by
\* one entry in every recordMatch call that returns true and in no other
\* step, so its length is the number of those calls.
C27_PointsAccounting ==
    /\ [](NoRemoval => Totals[1] = 3 * Decisive + 2 * Draws)
    /\ [][Len(matches') = Len(matches) +
             (IF last'.op = "recordMatch" /\ last'.ret = TRUE THEN 1 ELSE 0)]_vars

\* two teams after a draw and a match with a winner: 5 points
C27_Witness ==
    /\ NoRemoval
    /\ Len(teams) = 2
    /\ Decisive = 1
    /\ Draws = 1
    /\ Totals[1] = 5

\* C28: a recordMatch call whose home name and away name are the same name
\* of a team of the league changes no team's points, goalsFor or
\* goalsAgainst and appends nothing to the match log.
C28_NoSelfMatch ==
    [][(/\ last'.op = "recordMatch"
        /\ last'.args[1] = last'.args[2]
        /\ NameInLeague(last'.args[1])) =>
          /\ \A t \in DOMAIN teamObjs : Stats(teamObjs'[t]) = Stats(teamObjs[t])
          /\ matches' = matches]_vars

----------------------------------------------------------------------------
(* Properties of script.js and of UIManager *)

\* the names of the players of the Team of js/classes and of the Team of
\* script.js, in the order of the rosters
RichRosterNames == [i \in DOMAIN teamObjs[1].players |-> teamObjs[1].players[i].name]

ScriptRosterNames ==
    [i \in DOMAIN scriptObjs[1].players |-> scriptObjs[1].players[i].name]

\* name n is the name of more than one element of the sequence of names s
Shared(s, n) == \E i, j \in DOMAIN s : i # j /\ s[i] = n /\ s[j] = n

\* the sequence of names s without every n, and without its first n
WithoutAll(s, n) == SelectSeq(s, LAMBDA m : m # n)

WithoutFirst(s, n) ==
    IF \E i \in DOMAIN s : s[i] = n
    THEN splice(s, CHOOSE i \in DOMAIN s :
                      s[i] = n /\ \A j \in 1..(i - 1) : s[j] # n)
    ELSE s

\* the statement of C23 as the specification has it: after the same calls
\* of addPlayer and removePlayer the two Teams hold players of the same names
\* in the same order, and after the same calls of addTeam and removeTeam the
\* two Leagues hold teams of the same names in the same order.
C23_VariantsAgree ==
    /\ RichRosterNames = ScriptRosterNames
    /\ LeagueNames = ScriptLeagueNames

\* C23: from a state in which the two Teams (the two Leagues) hold the same
\* names in the same order, the same call on both leaves the same names in
\* both, unless the call removes a name that more than one element has: then
\* the variant of script.js has lost every element of that name, the variant
\* of js/classes the first of them alone.
C23_VariantsAgreeUntilShared ==
    [][/\ RichRosterNames = ScriptRosterNames =>
             IF last'.op = "removePlayer" /\ Shared(RichRosterNames, last'.args[1])
             THEN /\ ScriptRosterNames' = WithoutAll(RichRosterNames, last'.args[1])
                  /\ RichRosterNames' = WithoutFirst(RichRosterNames, last'.args[1])
             ELSE RichRosterNames' = ScriptRosterNames'
       /\ LeagueNames = ScriptLeagueNames =>
             IF last'.op = "removeTeam" /\ Shared(LeagueNames, last'.args[1])
             THEN /\ ScriptLeagueNames' = WithoutAll(LeagueNames, last'.args[1])
                  /\ LeagueNames' = WithoutFirst(LeagueNames, last'.args[1])
             ELSE LeagueNames' = ScriptLeagueNames']_vars

\* removePlayer of a name that two players had: the Team of js/classes still
\* holds one of them, the Team of script.js none
C23_Witness ==
    /\ last.op = "removePlayer"
    /\ last.args = <<"p1">>
    /\ RichRosterNames = <<"p2", "p1">>
    /\ ScriptRosterNames = <<"p2">>

\* C24: in every state of the page of script.js, pace, shooting and passing
\* of every player of every team are in [1, 10], whatever integers were
\* typed into addNewPlayer and editPlayer.
C24_ScriptSkillsInRange ==
    \A t \in DOMAIN scriptObjs : \A r \in DOMAIN scriptObjs[t].players :
       /\ scriptObjs[t].players[r].pace \in 1..10
       /\ scriptObjs[t].players[r].shooting \in 1..10
       /\ scriptObjs[t].players[r].passing \in 1..10

\* C25: from a league without teams, after every handler of UIManager (add
\* team, remove team, add player, remove player, edit, save, cancel) the
\* options of the team select and the team cards are, in order, the names of
\* the teams of the league, and every card is the card of the team at its
\* index: no removed team is left to select or on display.
C25_ViewIsLeague ==
    /\ dom.teamSelect = LeagueNames
    /\ Len(dom.cards) = Len(teams)
    /\ \A k \in DOMAIN dom.cards :
          /\ dom.cards[k].name = LeagueNames[k]
          /\ dom.cards[k].team = teams[k]

\* Remove Team has been clicked and has left one team of two on the page
C25_Witness ==
    /\ last.op = "removeTeamButton"
    /\ Len(teamObjs) = 2
    /\ Len(teams) = 1
    /\ dom.teamSelect = <<teamObjs[teams[1]].name>>
    /\ Len(dom.cards) = 1

\* C30: the Remove Team button of the card at index k takes the team at
\* index k, the one the card shows, out of the league, and the Remove button
\* of row r of a card takes the player at index r of the roster of its team,
\* the one the row shows; every other team and player stays.
C30_RemovesWhatIsShown ==
    [][/\ last'.op = "removeTeamButton" =>
             /\ dom.cards[last'.args[1]].team = teams[last'.args[1]]
             /\ teams' = splice(teams, last'.args[1])
             /\ teamObjs' = teamObjs
       /\ last'.op = "removePlayerButton" =>
             LET team == dom.cards[last'.args[1]].team
                 r    == dom.cards[last'.args[1]].rows[last'.args[2]].player
             IN  /\ teamObjs'[team].players = splice(teamObjs[team].players, r)
                 /\ \A u \in DOMAIN teamObjs \ {team} : teamObjs'[u] = teamObjs[u]
                 /\ teams' = teams]_vars

====
